---------------------------- MODULE Spec2Model ----------------------------
(***************************************************************************)
(* EdDSA (Ed25519) adapter and PEM/DER key loaders of eddsa.go.            *)
(*                                                                         *)
(* Byte strings are sequences over 0..255 and keep the sizes of the Go     *)
(* package crypto/ed25519 (32-byte seeds and public keys, 64-byte private  *)
(* keys and signatures).  The Ed25519 primitive is a Schnorr signature     *)
(* over the cyclic group Z_GroupOrder (base point 1) with a bit-count      *)
(* checksum in place of SHA-512: it keeps the structure of the primitive   *)
(* (key derivation from a seed, S = r + k*a, the check R = S*B - k*A, the  *)
(* rejection of non-canonical encodings, the acceptance of the identity    *)
(* point as a public key) on a group small enough to enumerate.            *)
(***************************************************************************)
EXTENDS Integers, Sequences, FiniteSets, TLC

VARIABLES
    op,        \* the operation that acted last
    key,       \* adapter: the key argument, [type, bytes]
    msg,       \* adapter: headerAndPayload
    sig,       \* adapter: the signature at hand
    signer,    \* adapter: the key that Sign produced sig with, or NoKey
    res,       \* result of the last operation, [err, val]
    input,     \* loaders: the bytes handed to a parser
    fs,        \* loaders: file name -> contents, or a read failure
    args,      \* loaders: the file names of the call in progress
    log,       \* loaders: the reads and parses of the call in progress
    pc,        \* loaders: position inside MustLoadEdDSA
    loaded     \* loaders: the private key MustLoadEdDSA holds

vars == <<op, key, msg, sig, signer, res, input, fs, args, log, pc, loaded>>

adapterVars == <<key, msg, sig, signer>>
loaderVars == <<input, fs, args, log, pc, loaded>>

---------------------------------------------------------------------------
(* Bounds of the model *)

\* order of the toy group standing for the prime-order subgroup of the curve
GroupOrder == 5
\* number of distinct seeds keys are derived from
NumSeeds == 3
\* longest message signed
MaxMsgLen == 2

---------------------------------------------------------------------------
(* Sizes of crypto/ed25519 *)

PublicKeySize == 32
PrivateKeySize == 64
SignatureSize == 64
SeedSize == 32

---------------------------------------------------------------------------
(* Bytes *)

Zeros(n) == [i \in 1..n |-> 0]

Pow2(j) == IF j = 0 THEN 1 ELSE IF j = 1 THEN 2 ELSE IF j = 2 THEN 4
           ELSE IF j = 3 THEN 8 ELSE IF j = 4 THEN 16 ELSE IF j = 5 THEN 32
           ELSE IF j = 6 THEN 64 ELSE 128

Bit(b, j) == (b \div Pow2(j)) % 2

FlipBit(b, j) == IF Bit(b, j) = 1 THEN b - Pow2(j) ELSE b + Pow2(j)

\* s with bit j of its i-th byte inverted
FlipAt(s, i, j) == [s EXCEPT ![i] = FlipBit(s[i], j)]

BitCount(b) == Bit(b, 0) + Bit(b, 1) + Bit(b, 2) + Bit(b, 3)
               + Bit(b, 4) + Bit(b, 5) + Bit(b, 6) + Bit(b, 7)

RECURSIVE BitSum(_)
BitSum(s) == IF s = <<>> THEN 0 ELSE BitCount(Head(s)) + BitSum(Tail(s))

RECURSIVE ByteSum(_)
ByteSum(s) == IF s = <<>> THEN 0 ELSE Head(s) + ByteSum(Tail(s))

AllZero(s) == \A i \in 1..Len(s) : s[i] = 0

\* F applied to the value of e, which is computed once
Bind(e, F(_)) == CHOOSE y \in {F(x) : x \in {e}} : TRUE

---------------------------------------------------------------------------
(* The Ed25519 primitive *)

\* a point u of the group as 32 bytes; the identity is 01 00 .. 00
EncodePoint(u) == <<u + 1>> \o Zeros(PublicKeySize - 1)

IsPoint(b) == /\ Len(b) = PublicKeySize
              /\ b[1] >= 1
              /\ b[1] <= GroupOrder
              /\ AllZero(Tail(b))

DecodePoint(b) == b[1] - 1

\* a scalar, little endian, as 32 bytes
EncodeScalar(s) == <<s>> \o Zeros(31)

\* Scalar.SetCanonicalBytes: the value is below the group order
IsCanonicalScalar(b) == /\ Len(b) = 32
                        /\ b[1] < GroupOrder
                        /\ AllZero(Tail(b))

\* the secret scalar a seed expands to; never zero
SecretScalar(seed) == 1 + ((ByteSum(seed) + seed[1]) % (GroupOrder - 1))

\* the nonce r = H(prefix, message)
Nonce(seed, m) == (ByteSum(seed) + 2 * BitSum(m) + Len(m)) % GroupOrder

\* the challenge k = H(R, A, message), as a checksum of A and the message that
\* every one-bit change of the message changes.  R is left out: over a group
\* this small any dependence on R yields one-bit forgeries, which SHA-512 over
\* the real group excludes.
Challenge(pub, m) == (BitSum(pub) + BitSum(m)) % GroupOrder

PublicFromSeed(seed) == EncodePoint(SecretScalar(seed) % GroupOrder)

\* ed25519.NewKeyFromSeed panics unless the seed has SeedSize bytes
NewKeyFromSeedPanics(seed) == Len(seed) # SeedSize

NewKeyFromSeed(seed) == seed \o PublicFromSeed(seed)

\* PrivateKey.Public: copy(make([]byte, 32), priv[32:]); the slice expression
\* panics when priv has fewer than 32 bytes
PublicPanics(priv) == Len(priv) < 32

Public(priv) == [i \in 1..PublicKeySize |->
                    IF 32 + i <= Len(priv) THEN priv[32 + i] ELSE 0]

\* ed25519.Sign over a 64-byte private key: seed priv[:32], public key priv[32:]
ed25519Sign(priv, m) ==
    LET seed == SubSeq(priv, 1, 32)
        pub == SubSeq(priv, 33, 64)
        r == Nonce(seed, m)
        k == Challenge(pub, m)
        S == (r + k * SecretScalar(seed)) % GroupOrder
    IN  EncodePoint(r) \o EncodeScalar(S)

\* ed25519.Verify: "panic" on a public key of the wrong length, else whether
\* sig[:32] is the encoding of S*B - k*A
ed25519Verify(pub, m, s) ==
    IF Len(pub) # PublicKeySize THEN "panic"
    ELSE IF Len(s) # SignatureSize THEN "false"
    ELSE IF ~IsPoint(pub) THEN "false"
    ELSE IF ~IsCanonicalScalar(SubSeq(s, 33, 64)) THEN "false"
    ELSE LET A == DecodePoint(pub)
             k == Challenge(pub, m)
             R == (s[33] + GroupOrder - ((k * A) % GroupOrder)) % GroupOrder
         IN  IF SubSeq(s, 1, 32) = EncodePoint(R) THEN "true" ELSE "false"

---------------------------------------------------------------------------
(* Errors and results *)

Nil == "nil"
ErrInvalidKey == "ErrInvalidKey"
ErrTokenSignature == "ErrTokenSignature"
Panic == "panic"

Result(e, v) == [err |-> e, val |-> v]

NoResult == Result("none", <<>>)

---------------------------------------------------------------------------
(* The algorithm adapter *)

TPrivate == "ed25519.PrivateKey"
TPublic == "ed25519.PublicKey"

Key(t, b) == [type |-> t, bytes |-> b]

NoKey == Key("none", <<>>)

\* Sign that lets a private key longer than PrivateKeySize through
SignLongKey(k, headerAndPayload) ==
    IF k.type # TPrivate THEN Result(ErrInvalidKey, <<>>)
    ELSE IF Len(k.bytes) < PrivateKeySize THEN Result(ErrInvalidKey, <<>>)
    ELSE Result(Nil, ed25519Sign(k.bytes, headerAndPayload))

Sign(k, headerAndPayload) ==
    IF k.type # TPrivate THEN Result(ErrInvalidKey, <<>>)
    ELSE IF Len(k.bytes) # PrivateKeySize THEN Result(ErrInvalidKey, <<>>)
    ELSE Result(Nil, ed25519Sign(k.bytes, headerAndPayload))

\* lines 41-49 without the negation of the primitive's answer
VerifyPublicInverted(publicKey, headerAndPayload, signature) ==
    IF Len(publicKey) # PublicKeySize THEN Result(ErrInvalidKey, <<>>)
    ELSE IF ed25519Verify(publicKey, headerAndPayload, signature) = "true"
    THEN Result(ErrTokenSignature, <<>>)
    ELSE Result(Nil, <<>>)

\* lines 41-49 with ErrInvalidKey returned for a signature that does not verify
VerifyPublicOneSentinel(publicKey, headerAndPayload, signature) ==
    IF Len(publicKey) # PublicKeySize THEN Result(ErrInvalidKey, <<>>)
    ELSE IF ed25519Verify(publicKey, headerAndPayload, signature) = "true"
    THEN Result(Nil, <<>>)
    ELSE Result(ErrInvalidKey, <<>>)

\* lines 41-49: the length check and the call of the primitive
VerifyPublic(publicKey, headerAndPayload, signature) ==
    IF Len(publicKey) # PublicKeySize THEN Result(ErrInvalidKey, <<>>)
    ELSE LET ok == ed25519Verify(publicKey, headerAndPayload, signature)
         IN  IF ok = "panic" THEN Result(Panic, <<>>)
             ELSE IF ok = "false" THEN Result(ErrTokenSignature, <<>>)
             ELSE Result(Nil, <<>>)

\* Verify without the private-key branch of lines 34-35
VerifyPublicKeyOnly(k, headerAndPayload, signature) ==
    IF k.type = TPublic
    THEN VerifyPublic(k.bytes, headerAndPayload, signature)
    ELSE Result(ErrInvalidKey, <<>>)

Verify(k, headerAndPayload, signature) ==
    IF k.type = TPublic
    THEN VerifyPublic(k.bytes, headerAndPayload, signature)
    ELSE IF k.type = TPrivate
    THEN IF PublicPanics(k.bytes) THEN Result(Panic, <<>>)
         ELSE VerifyPublic(Public(k.bytes), headerAndPayload, signature)
    ELSE Result(ErrInvalidKey, <<>>)

---------------------------------------------------------------------------
(* encoding/pem: a file is a sequence of lines, a BEGIN line, an END line,  *)
(* a line of base64 data (held decoded) or any other text                  *)

BeginLine(label) == [k |-> "begin", label |-> label, bytes |-> <<>>]
EndLine(label) == [k |-> "end", label |-> label, bytes |-> <<>>]
DataLine(b) == [k |-> "data", label |-> "", bytes |-> b]
TextLine == [k |-> "text", label |-> "", bytes |-> <<>>]

NoBlock == [found |-> FALSE, Bytes |-> <<>>]

RECURSIVE JoinData(_, _, _)
JoinData(lines, i, j) ==
    IF i > j THEN <<>> ELSE lines[i].bytes \o JoinData(lines, i + 1, j)

\* the first line of kind k at or after position from
firstLine(lines, from, k) ==
    CHOOSE i \in from..Len(lines) :
        lines[i].k = k /\ \A o \in from..(i - 1) : lines[o].k # k

\* pem.Decode: the first BEGIN line whose nearest END line carries the same
\* label and whose body decodes as base64; a BEGIN line that fails is skipped
RECURSIVE pemDecode(_, _)
pemDecode(lines, from) ==
    IF \A i \in from..Len(lines) : lines[i].k # "begin" THEN NoBlock
    ELSE Bind(firstLine(lines, from, "begin"), LAMBDA b :
             IF \A i \in (b + 1)..Len(lines) : lines[i].k # "end"
             THEN pemDecode(lines, b + 1)
             ELSE Bind(firstLine(lines, b + 1, "end"), LAMBDA e :
                      IF /\ lines[e].label = lines[b].label
                         /\ \A i \in (b + 1)..(e - 1) : lines[i].k = "data"
                      THEN [found |-> TRUE, Bytes |-> JoinData(lines, b + 1, e - 1)]
                      ELSE pemDecode(lines, b + 1)))

---------------------------------------------------------------------------
(* encoding/asn1: DER, positions counted from 1 *)

TagInteger == 2
TagBitString == 3
TagOctetString == 4
TagOID == 6
TagSequence == 16

NoTL == [ok |-> FALSE, class |-> 0, compound |-> FALSE, tag |-> 0, length |-> 0, next |-> 0]

\* the long form of a length: n more bytes, big endian
RECURSIVE longLength(_, _, _, _)
longLength(b, q, n, acc) ==
    IF n = 0 THEN [ok |-> acc >= 128, length |-> acc, next |-> q]
    ELSE IF q > Len(b) THEN [ok |-> FALSE, length |-> 0, next |-> q]
    ELSE IF acc >= 8388608 THEN [ok |-> FALSE, length |-> 0, next |-> q]
    ELSE IF acc * 256 + b[q] = 0 THEN [ok |-> FALSE, length |-> 0, next |-> q]
    ELSE longLength(b, q + 1, n - 1, acc * 256 + b[q])

\* parseTagAndLength at position p <= Len(b); a tag in the high-tag-number form
\* matches no field of the two structures and is reported as an error here
parseTagAndLength(b, p) ==
    IF b[p] % 32 = 31 THEN NoTL
    ELSE IF p + 1 > Len(b) THEN NoTL
    ELSE IF b[p + 1] = 128 THEN NoTL
    ELSE Bind(IF b[p + 1] < 128
              THEN [ok |-> TRUE, length |-> b[p + 1], next |-> p + 2]
              ELSE longLength(b, p + 2, b[p + 1] - 128, 0), LAMBDA l :
             IF ~l.ok THEN NoTL
             ELSE [ok |-> TRUE, class |-> b[p] \div 64,
                   compound |-> (b[p] \div 32) % 2 = 1, tag |-> b[p] % 32,
                   length |-> l.length, next |-> l.next])

NoField == [ok |-> FALSE, inner |-> <<>>, next |-> 0]

\* parseField up to the contents of the element: the element at position p of b
\* must be universal, carry the expected tag and form, and lie inside b
parseHeader(b, p, tag, compound) ==
    IF p > Len(b) THEN NoField
    ELSE Bind(parseTagAndLength(b, p), LAMBDA t :
             IF ~t.ok THEN NoField
             ELSE IF t.class # 0 \/ t.tag # tag \/ t.compound # compound THEN NoField
             ELSE IF t.next + t.length - 1 > Len(b) THEN NoField
             ELSE [ok |-> TRUE,
                   inner |-> SubSeq(b, t.next, t.next + t.length - 1),
                   next |-> t.next + t.length])

\* checkInteger and the width of parseInt64
integerOk(b) ==
    /\ Len(b) >= 1
    /\ Len(b) <= 8
    /\ Len(b) >= 2 =>
           /\ ~(b[1] = 0 /\ b[2] < 128)
           /\ ~(b[1] = 255 /\ b[2] >= 128)

\* parseBase128Int from position p: the position after it, or 0 on an error
RECURSIVE parseBase128Int(_, _, _, _)
parseBase128Int(b, p, shifted, acc) ==
    IF p > Len(b) THEN 0
    ELSE IF shifted = 5 THEN 0
    ELSE IF shifted = 0 /\ b[p] = 128 THEN 0
    ELSE Bind(acc * 128 + (b[p] % 128), LAMBDA v :
             IF b[p] < 128
             THEN IF v > 2147483647 THEN 0 ELSE p + 1
             ELSE parseBase128Int(b, p + 1, shifted + 1, v))

RECURSIVE base128IntsOk(_, _)
base128IntsOk(b, p) ==
    IF p > Len(b) THEN TRUE
    ELSE Bind(parseBase128Int(b, p, 0, 0), LAMBDA q :
             IF q = 0 THEN FALSE ELSE base128IntsOk(b, q))

\* parseObjectIdentifier
objectIdentifierOk(b) == Len(b) >= 1 /\ base128IntsOk(b, 1)

\* parseBitString: the first byte counts the padding bits of the last one
bitStringOk(b) ==
    /\ Len(b) >= 1
    /\ b[1] <= 7
    /\ ~(Len(b) = 1 /\ b[1] > 0)
    /\ b[Len(b)] % Pow2(b[1]) = 0

NoStruct == [ok |-> FALSE, Key |-> <<>>]

\* struct { ObjectIdentifier asn1.ObjectIdentifier } at position p
unmarshalAlgorithm(b, p) ==
    Bind(parseHeader(b, p, TagSequence, TRUE), LAMBDA s :
        IF ~s.ok THEN NoField
        ELSE Bind(parseHeader(s.inner, 1, TagOID, FALSE), LAMBDA o :
                 IF o.ok /\ objectIdentifierOk(o.inner) THEN s ELSE NoField))

\* the fields of asn1PrivKey in the contents b of the outer sequence
privKeyFields(b) ==
    Bind(parseHeader(b, 1, TagInteger, FALSE), LAMBDA version :
        IF ~(version.ok /\ integerOk(version.inner)) THEN NoStruct
        ELSE Bind(unmarshalAlgorithm(b, version.next), LAMBDA alg :
                 IF ~alg.ok THEN NoStruct
                 ELSE Bind(parseHeader(b, alg.next, TagOctetString, FALSE), LAMBDA k :
                          IF ~k.ok THEN NoStruct
                          ELSE [ok |-> TRUE, Key |-> k.inner])))

\* asn1.Unmarshal into asn1PrivKey: { Version int; ObjectIdentifier struct;
\* PrivateKey []byte }; bytes after the last field are accepted
unmarshalPrivKey(der) ==
    Bind(parseHeader(der, 1, TagSequence, TRUE), LAMBDA top :
        IF ~top.ok THEN NoStruct ELSE privKeyFields(top.inner))

\* the fields of asn1PubKey in the contents b of the outer sequence
pubKeyFields(b) ==
    Bind(unmarshalAlgorithm(b, 1), LAMBDA alg :
        IF ~alg.ok THEN NoStruct
        ELSE Bind(parseHeader(b, alg.next, TagBitString, FALSE), LAMBDA k :
                 IF ~(k.ok /\ bitStringOk(k.inner)) THEN NoStruct
                 ELSE [ok |-> TRUE, Key |-> Tail(k.inner)]))

\* asn1.Unmarshal into asn1PubKey: { OBjectIdentifier struct;
\* PublicKey asn1.BitString }
unmarshalPubKey(der) ==
    Bind(parseHeader(der, 1, TagSequence, TRUE), LAMBDA top :
        IF ~top.ok THEN NoStruct ELSE pubKeyFields(top.inner))

---------------------------------------------------------------------------
(* The key parsers and loaders *)

ErrPEMPrivate == "private key: malformed or missing PEM format (EdDSA)"
ErrPEMPublic == "public key: malformed or missing PEM format (EdDSA)"
ErrASN1 == "asn1: syntax or structural error"

\* line 129 with one byte skipped instead of two: PrivateKey[1:]
keyFromFieldSkipOne(PrivateKey) ==
    IF Len(PrivateKey) < 1 THEN Result(Panic, <<>>)
    ELSE Bind(Tail(PrivateKey), LAMBDA seed :
             IF NewKeyFromSeedPanics(seed) THEN Result(Panic, <<>>)
             ELSE Result(Nil, NewKeyFromSeed(seed)))

\* line 129: privateKey := ed25519.NewKeyFromSeed(asn1PrivKey.PrivateKey[2:])
keyFromField(PrivateKey) ==
    IF Len(PrivateKey) < 2 THEN Result(Panic, <<>>)
    ELSE Bind(SubSeq(PrivateKey, 3, Len(PrivateKey)), LAMBDA seed :
             IF NewKeyFromSeedPanics(seed) THEN Result(Panic, <<>>)
             ELSE Result(Nil, NewKeyFromSeed(seed)))

ParsePrivateKeyEdDSA(k) ==
    Bind(pemDecode(k, 1), LAMBDA block :
        IF ~block.found THEN Result(ErrPEMPrivate, <<>>)
        ELSE Bind(unmarshalPrivKey(block.Bytes), LAMBDA asn1PrivKey :
                 IF ~asn1PrivKey.ok THEN Result(ErrASN1, <<>>)
                 ELSE keyFromField(asn1PrivKey.Key)))

ParsePublicKeyEdDSA(k) ==
    Bind(pemDecode(k, 1), LAMBDA block :
        IF ~block.found THEN Result(ErrPEMPublic, <<>>)
        ELSE Bind(unmarshalPubKey(block.Bytes), LAMBDA asn1PubKey :
                 IF ~asn1PubKey.ok THEN Result(ErrASN1, <<>>)
                 ELSE Result(Nil, asn1PubKey.Key)))

ErrNotExist == "open: no such file or directory"
ErrPermission == "open: permission denied"

File(e, lines) == [err |-> e, data |-> lines]

\* ReadFile(filename): the bytes of the file, or the error of the read
ReadFile(fsys, filename) == fsys[filename]

ReadEvent(filename) == [ev |-> "ReadFile", file |-> filename]
ParseEvent(parser) == [ev |-> parser, file |-> ""]

Call(r, l) == [res |-> r, log |-> l]

\* LoadPrivateKeyEdDSA that drops the error of ReadFile and parses what it got
LoadPrivateUnchecked(fsys, filename) ==
    Bind(ParsePrivateKeyEdDSA(ReadFile(fsys, filename).data), LAMBDA k :
        IF k.err # Nil
        THEN Call(Result(k.err, <<>>),
                  <<ReadEvent(filename), ParseEvent("ParsePrivateKeyEdDSA")>>)
        ELSE Call(Result(Nil, k.val),
                  <<ReadEvent(filename), ParseEvent("ParsePrivateKeyEdDSA")>>))

LoadPrivateKeyEdDSA(fsys, filename) ==
    Bind(ReadFile(fsys, filename), LAMBDA b :
        IF b.err # Nil THEN Call(Result(b.err, <<>>), <<ReadEvent(filename)>>)
        ELSE Bind(ParsePrivateKeyEdDSA(b.data), LAMBDA k :
                 IF k.err # Nil
                 THEN Call(Result(k.err, <<>>),
                           <<ReadEvent(filename), ParseEvent("ParsePrivateKeyEdDSA")>>)
                 ELSE Call(Result(Nil, k.val),
                           <<ReadEvent(filename), ParseEvent("ParsePrivateKeyEdDSA")>>)))

LoadPublicKeyEdDSA(fsys, filename) ==
    Bind(ReadFile(fsys, filename), LAMBDA b :
        IF b.err # Nil THEN Call(Result(b.err, <<>>), <<ReadEvent(filename)>>)
        ELSE Bind(ParsePublicKeyEdDSA(b.data), LAMBDA k :
                 IF k.err # Nil
                 THEN Call(Result(k.err, <<>>),
                           <<ReadEvent(filename), ParseEvent("ParsePublicKeyEdDSA")>>)
                 ELSE Call(Result(Nil, k.val),
                           <<ReadEvent(filename), ParseEvent("ParsePublicKeyEdDSA")>>)))

---------------------------------------------------------------------------
(* Inputs of the adapter *)

\* seed n; seed 0 is the byte sequence 00 01 .. 1F
Seed(n) == [i \in 1..SeedSize |-> (i - 1 + n) % 256]

Seeds == {Seed(n) : n \in 0..(NumSeeds - 1)}

PrivateOf(seed) == Key(TPrivate, NewKeyFromSeed(seed))

PublicOf(seed) == Key(TPublic, PublicFromSeed(seed))

\* a 64-byte private key is valid when it is the expansion of its seed
ValidPrivate(k) == /\ k.type = TPrivate
                   /\ Len(k.bytes) = PrivateKeySize
                   /\ k.bytes = NewKeyFromSeed(SubSeq(k.bytes, 1, SeedSize))

\* the public key the primitive derives from the seed of private key k
publicKeyOf(k) == Key(TPublic, PublicFromSeed(SubSeq(k.bytes, 1, SeedSize)))

\* the identity point: [k]A is the identity for every k
IdentityKey == Key(TPublic, EncodePoint(0))

BadKeys ==
    { Key(TPrivate, SubSeq(NewKeyFromSeed(Seed(0)), 1, 31)),
      Key(TPrivate, NewKeyFromSeed(Seed(0)) \o <<0>>),
      Key(TPrivate, Seed(0)),
      Key(TPrivate, <<>>),
      Key(TPrivate, Seed(0) \o PublicFromSeed(Seed(1))),
      Key(TPublic, SubSeq(PublicFromSeed(Seed(0)), 1, 31)),
      Key(TPublic, PublicFromSeed(Seed(0)) \o <<0>>),
      Key(TPublic, <<>>),
      Key(TPublic, NewKeyFromSeed(Seed(0))),
      Key(TPublic, Zeros(PublicKeySize)),
      IdentityKey,
      Key("[]byte", NewKeyFromSeed(Seed(0))),
      Key("[]byte", PublicFromSeed(Seed(0))),
      Key("string", <<>>) }

Keys == {PrivateOf(s) : s \in Seeds} \cup {PublicOf(s) : s \in Seeds} \cup BadKeys

MsgBytes == {0, 104}

RECURSIVE SeqsUpTo(_, _)
SeqsUpTo(S, n) ==
    IF n = 0 THEN {<<>>}
    ELSE LET shorter == SeqsUpTo(S, n - 1)
         IN  shorter \cup {Append(s, b) : s \in shorter, b \in S}

Msgs == SeqsUpTo(MsgBytes, MaxMsgLen)

\* signatures that no call of Sign produced
ForgedSigs ==
    { <<>>,
      Zeros(SignatureSize),
      Zeros(SignatureSize - 1),
      EncodePoint(0) \o EncodeScalar(0) }

---------------------------------------------------------------------------
(* Calls of the adapter *)

LoaderIdle == /\ input = <<>>
              /\ fs = <<>>
              /\ args = <<>>
              /\ log = <<>>
              /\ pc = "idle"
              /\ loaded = <<>>

InitAdapter == /\ op = "init"
               /\ key \in Keys
               /\ msg \in Msgs
               /\ sig \in ForgedSigs
               /\ signer = NoKey
               /\ res = NoResult
               /\ LoaderIdle

\* a.Sign(key, msg)
SignAct == /\ op = "init"
           /\ res' = Sign(key, msg)
           /\ sig' = IF res'.err = Nil THEN res'.val ELSE sig
           /\ signer' = IF res'.err = Nil THEN key ELSE NoKey
           /\ op' = "Sign"
           /\ UNCHANGED <<key, msg>>
           /\ UNCHANGED loaderVars

\* the verifier holds another key than the signer
SwitchKey(k) == /\ op = "Sign"
                /\ key' = k
                /\ op' = "SwitchKey"
                /\ UNCHANGED <<msg, sig, signer, res>>
                /\ UNCHANGED loaderVars

\* a.Verify(key, msg, sig)
VerifyAct == /\ op \in {"init", "Sign", "SwitchKey"}
             /\ res' = Verify(key, msg, sig)
             /\ op' = "Verify"
             /\ UNCHANGED adapterVars
             /\ UNCHANGED loaderVars

\* a.Verify on an accepted triple with one bit of the signature inverted
VerifyFlippedSignature(i, j) ==
    /\ op = "Verify"
    /\ res.err = Nil
    /\ i \in 1..Len(sig)
    /\ sig' = FlipAt(sig, i, j)
    /\ res' = Verify(key, msg, sig')
    /\ op' = "VerifyFlippedSignature"
    /\ UNCHANGED <<key, msg, signer>>
    /\ UNCHANGED loaderVars

\* a.Verify on an accepted triple with one bit of the message inverted
VerifyFlippedMessage(i, j) ==
    /\ op = "Verify"
    /\ res.err = Nil
    /\ i \in 1..Len(msg)
    /\ msg' = FlipAt(msg, i, j)
    /\ res' = Verify(key, msg', sig)
    /\ op' = "VerifyFlippedMessage"
    /\ UNCHANGED <<key, sig, signer>>
    /\ UNCHANGED loaderVars

NextAdapter == \/ SignAct
               \/ \E k \in Keys : SwitchKey(k)
               \/ VerifyAct
               \/ \E i \in 1..SignatureSize, j \in 0..7 : VerifyFlippedSignature(i, j)
               \/ \E i \in 1..MaxMsgLen, j \in 0..7 : VerifyFlippedMessage(i, j)

AdapterSpec == InitAdapter /\ [][NextAdapter]_vars

---------------------------------------------------------------------------
(* Claims about the adapter *)

\* a key derived from a seed: the expanded private key or its public half
DerivedKey(k) == \/ ValidPrivate(k)
                 \/ \E s \in Seeds : k = PublicOf(s)

\* a key Verify has to refuse: wrong dynamic type or wrong length
InvalidVerifyKey(k) ==
    \/ k.type \notin {TPublic, TPrivate}
    \/ k.type = TPublic /\ Len(k.bytes) # PublicKeySize
    \/ k.type = TPrivate /\ Len(k.bytes) # PrivateKeySize

Flipped == op \in {"VerifyFlippedSignature", "VerifyFlippedMessage"}

\* C1: for every valid 64-byte private key k and message m, Sign(k, m) returns
\* (sig, nil) and Verify(publicKeyOf(k), m, sig) returns nil.
C1_RoundTrip ==
    /\ (op = "Sign" /\ ValidPrivate(key)) =>
           (res.err = Nil /\ sig = res.val /\ signer = key)
    /\ (op = "Verify" /\ ValidPrivate(signer) /\ key = publicKeyOf(signer)) =>
           res.err = Nil

C1_Witness == /\ op = "Verify"
              /\ ValidPrivate(signer)
              /\ key = publicKeyOf(signer)
              /\ Len(msg) = MaxMsgLen
              /\ res.err = Nil

\* C2: Verify returns ErrInvalidKey for every key of the wrong dynamic type or
\* of the wrong length (a public key not of 32 bytes, a private key not of 64
\* bytes), whatever the message and signature; it never panics and never
\* reports success or a signature mismatch for such a key.
C2_VerifyRejectsInvalidKey ==
    (op = "Verify" /\ InvalidVerifyKey(key)) => res = Result(ErrInvalidKey, <<>>)

\* C3: Sign returns (nil, ErrInvalidKey) whenever the key is not an
\* ed25519.PrivateKey of exactly 64 bytes; otherwise it returns a 64-byte
\* signature and a nil error, the one signature of that key and message.
C3_SignContract ==
    op = "Sign" =>
        IF key.type # TPrivate \/ Len(key.bytes) # PrivateKeySize
        THEN res = Result(ErrInvalidKey, <<>>) /\ signer = NoKey
        ELSE /\ res.err = Nil
             /\ Len(res.val) = SignatureSize
             /\ res.val = ed25519Sign(key.bytes, msg)
             /\ sig = res.val

C3_Witness == /\ op = "Sign"
              /\ key.type = TPrivate
              /\ Len(key.bytes) = PrivateKeySize + 1
              /\ res.err = ErrInvalidKey

\* C4 as stated: for every triple Verify accepts, inverting one bit of the
\* signature or of the message makes Verify with the same key return
\* ErrTokenSignature.
C4_AnyAcceptedTriple == Flipped => res.err = ErrTokenSignature

\* C4 amended: for every triple Verify accepts under a key derived from a seed
\* (the expanded private key or its public half), inverting one bit of the
\* signature or of the message makes Verify with the same key return
\* ErrTokenSignature, never ErrInvalidKey and never nil.
C4_DerivedKeyTriple == (Flipped /\ DerivedKey(key)) => res.err = ErrTokenSignature

C4_Witness == /\ op = "VerifyFlippedMessage"
              /\ DerivedKey(key)
              /\ res.err = ErrTokenSignature

\* C9: Verify with a valid 64-byte private key k gives, for every message and
\* signature, the outcome of Verify with the public key derived from k; in
\* particular Verify(k, m, Sign(k, m)) returns nil.
C9_PrivateKeyVerifies ==
    (op = "Verify" /\ ValidPrivate(key)) =>
        /\ res = Verify(publicKeyOf(key), msg, sig)
        /\ res.err \in {Nil, ErrTokenSignature}
        /\ signer = key => res.err = Nil

C9_Witness == /\ op = "Verify"
              /\ ValidPrivate(key)
              /\ signer = key
              /\ res.err = Nil

---------------------------------------------------------------------------
(* Inputs of the loaders *)

\* a DER element with a length in the short form
TLV(tag, content) == <<tag, Len(content)>> \o content

\* 1.3.101.112, id-Ed25519
OIDEd25519 == <<43, 101, 112>>

AlgorithmDER == TLV(48, TLV(6, OIDEd25519))

\* the private-key envelope around the octet string k
PrivateDER(k) == TLV(48, TLV(2, <<0>>) \o AlgorithmDER \o TLV(4, k))

\* the public-key envelope around the bit string k (no padding bits)
PublicDER(k) == TLV(48, AlgorithmDER \o TLV(3, <<0>> \o k))

Armor(label, der) == <<BeginLine(label), DataLine(der), EndLine(label)>>

\* the two bytes in front of the seed: the tag and length of an inner octet
\* string, or anything else
Prefixes == {<<4, 32>>, <<0, 0>>, <<255, 7>>}

\* the PEM file of seed s behind prefix p
Envelope(p, s) == Armor("PRIVATE KEY", PrivateDER(p \o s))

PublicEnvelope(s) == Armor("PUBLIC KEY", PublicDER(PublicFromSeed(s)))

GoodInputs == {Envelope(p, s) : p \in Prefixes, s \in Seeds}
              \cup {PublicEnvelope(s) : s \in Seeds}

\* well-formed envelopes whose key field has another length
OddLengthInputs ==
    { Armor("PRIVATE KEY", PrivateDER(<<>>)),
      Armor("PRIVATE KEY", PrivateDER(<<4>>)),
      Armor("PRIVATE KEY", PrivateDER(<<4, 0>>)),
      Armor("PRIVATE KEY", PrivateDER(Seed(0))),
      Armor("PRIVATE KEY", PrivateDER(<<4, 31>> \o SubSeq(Seed(0), 1, 31))),
      Armor("PRIVATE KEY", PrivateDER(<<4, 33>> \o Seed(0) \o <<0>>)),
      Armor("PUBLIC KEY", PublicDER(<<>>)),
      Armor("PUBLIC KEY", PublicDER(SubSeq(PublicFromSeed(Seed(0)), 1, 31))),
      Armor("PUBLIC KEY", PublicDER(PublicFromSeed(Seed(0)) \o <<0>>)) }

GoodDER == PrivateDER(<<4, 32>> \o Seed(0))

\* inputs without a PEM block, and blocks whose payload is not the structure
BrokenInputs ==
    { <<>>,
      <<TextLine>>,
      <<DataLine(GoodDER)>>,
      <<BeginLine("PRIVATE KEY"), DataLine(GoodDER)>>,
      <<BeginLine("PRIVATE KEY"), DataLine(GoodDER), EndLine("PUBLIC KEY")>>,
      <<BeginLine("PRIVATE KEY"), TextLine, EndLine("PRIVATE KEY")>>,
      Armor("PRIVATE KEY", <<>>),
      Armor("PRIVATE KEY", SubSeq(GoodDER, 1, Len(GoodDER) - 1)),
      Armor("PRIVATE KEY", [GoodDER EXCEPT ![1] = 49]),
      Armor("PRIVATE KEY", [GoodDER EXCEPT ![2] = 128]),
      Armor("PRIVATE KEY", [GoodDER EXCEPT ![2] = 129]),
      Armor("PRIVATE KEY", TLV(48, TLV(2, <<>>) \o AlgorithmDER \o TLV(4, <<4, 0>>))),
      Armor("PRIVATE KEY", TLV(48, TLV(2, <<0>>) \o TLV(48, TLV(6, <<43, 128>>))
                                   \o TLV(4, <<4, 0>>))),
      Armor("PUBLIC KEY", TLV(48, AlgorithmDER \o TLV(3, <<>>))),
      Armor("PUBLIC KEY", TLV(48, AlgorithmDER \o TLV(3, <<3, 7>>))) }

\* blocks the decoder accepts in other surroundings
VariedInputs ==
    { <<TextLine>> \o Envelope(<<4, 32>>, Seed(0)) \o <<TextLine>>,
      <<BeginLine("PRIVATE KEY")>> \o Envelope(<<4, 32>>, Seed(0)),
      <<BeginLine("PRIVATE KEY"), DataLine(SubSeq(GoodDER, 1, 20)),
        DataLine(SubSeq(GoodDER, 21, Len(GoodDER))), EndLine("PRIVATE KEY")>>,
      Armor("PRIVATE KEY", GoodDER \o <<0, 0>>),
      Armor("PRIVATE KEY", TLV(48, TLV(2, <<0>>) \o AlgorithmDER
                                   \o TLV(4, <<4, 32>> \o Seed(0)) \o <<160, 0>>)) }

Inputs == GoodInputs \cup OddLengthInputs \cup BrokenInputs \cup VariedInputs

FileNames == {"private.pem", "public.pem"}

Files == {File(Nil, i) : i \in Inputs}
         \cup {File(ErrNotExist, <<>>), File(ErrPermission, <<>>)}

---------------------------------------------------------------------------
(* Calls of the parsers and loaders *)

AdapterIdle == /\ key = NoKey
               /\ msg = <<>>
               /\ sig = <<>>
               /\ signer = NoKey

InitLoader == /\ op = "init"
              /\ res = NoResult
              /\ fs \in [FileNames -> Files]
              /\ input = <<>>
              /\ args = <<>>
              /\ log = <<>>
              /\ pc = "idle"
              /\ loaded = <<>>
              /\ AdapterIdle

\* ParsePrivateKeyEdDSA(key)
ParsePrivateAct(k) ==
    /\ op = "init"
    /\ input' = k
    /\ res' = ParsePrivateKeyEdDSA(k)
    /\ op' = "ParsePrivateKeyEdDSA"
    /\ UNCHANGED <<fs, args, log, pc, loaded>>
    /\ UNCHANGED adapterVars

\* ParsePublicKeyEdDSA(key)
ParsePublicAct(k) ==
    /\ op = "init"
    /\ input' = k
    /\ res' = ParsePublicKeyEdDSA(k)
    /\ op' = "ParsePublicKeyEdDSA"
    /\ UNCHANGED <<fs, args, log, pc, loaded>>
    /\ UNCHANGED adapterVars

\* LoadPrivateKeyEdDSA(filename)
LoadPrivateAct(f) ==
    /\ op = "init"
    /\ LET c == LoadPrivateKeyEdDSA(fs, f)
       IN  res' = c.res /\ log' = c.log
    /\ args' = <<f>>
    /\ op' = "LoadPrivateKeyEdDSA"
    /\ UNCHANGED <<input, fs, pc, loaded>>
    /\ UNCHANGED adapterVars

\* LoadPublicKeyEdDSA(filename)
LoadPublicAct(f) ==
    /\ op = "init"
    /\ LET c == LoadPublicKeyEdDSA(fs, f)
       IN  res' = c.res /\ log' = c.log
    /\ args' = <<f>>
    /\ op' = "LoadPublicKeyEdDSA"
    /\ UNCHANGED <<input, fs, pc, loaded>>
    /\ UNCHANGED adapterVars

\* lines 61-64 without the panic: the error of the private load is dropped
MustLoadPrivateUnchecked(privateKeyFilename, publicKeyFilename) ==
    /\ op = "init"
    /\ LET c == LoadPrivateKeyEdDSA(fs, privateKeyFilename)
       IN  /\ log' = c.log
           /\ loaded' = c.res.val
    /\ pc' = "privateLoaded"
    /\ res' = NoResult
    /\ args' = <<privateKeyFilename, publicKeyFilename>>
    /\ op' = "MustLoadEdDSA"
    /\ UNCHANGED <<input, fs>>
    /\ UNCHANGED adapterVars

\* MustLoadEdDSA(privateKeyFilename, publicKeyFilename), lines 61-64
MustLoadPrivate(privateKeyFilename, publicKeyFilename) ==
    /\ op = "init"
    /\ LET c == LoadPrivateKeyEdDSA(fs, privateKeyFilename)
       IN  /\ log' = c.log
           /\ IF c.res.err # Nil
              THEN pc' = "panicked" /\ res' = c.res /\ loaded' = <<>>
              ELSE pc' = "privateLoaded" /\ res' = NoResult /\ loaded' = c.res.val
    /\ args' = <<privateKeyFilename, publicKeyFilename>>
    /\ op' = "MustLoadEdDSA"
    /\ UNCHANGED <<input, fs>>
    /\ UNCHANGED adapterVars

\* MustLoadEdDSA, lines 66-71
MustLoadPublic ==
    /\ op = "MustLoadEdDSA"
    /\ pc = "privateLoaded"
    /\ LET c == LoadPublicKeyEdDSA(fs, args[2])
       IN  /\ log' = log \o c.log
           /\ res' = c.res
           /\ IF c.res.err # Nil
              THEN pc' = "panicked" /\ loaded' = <<>>
              ELSE pc' = "returned" /\ loaded' = loaded
    /\ UNCHANGED <<op, input, fs, args>>
    /\ UNCHANGED adapterVars

NextLoader ==
    \/ \E f \in FileNames : fs[f].err = Nil /\ ParsePrivateAct(fs[f].data)
    \/ \E f \in FileNames : fs[f].err = Nil /\ ParsePublicAct(fs[f].data)
    \/ \E f \in FileNames : LoadPrivateAct(f)
    \/ \E f \in FileNames : LoadPublicAct(f)
    \/ \E f \in FileNames, g \in FileNames : MustLoadPrivate(f, g)
    \/ MustLoadPublic

LoaderSpec == InitLoader /\ [][NextLoader]_vars

---------------------------------------------------------------------------
(* Claims about the parsers and loaders *)

Parsed == op \in {"ParsePrivateKeyEdDSA", "ParsePublicKeyEdDSA"}

\* C5: ParsePrivateKeyEdDSA and ParsePublicKeyEdDSA never panic: for every
\* input they return a key with a nil error, or a nil key with a malformed-PEM
\* or malformed-ASN.1 error.
C5_ParsersNeverPanic ==
    Parsed =>
        /\ res.err # Panic
        /\ \/ res.err = Nil
           \/ res.val = <<>> /\ res.err \in {ErrPEMPrivate, ErrPEMPublic, ErrASN1}

\* C6: a key returned with a nil error by ParsePrivateKeyEdDSA or
\* LoadPrivateKeyEdDSA has exactly 64 bytes, one returned with a nil error by
\* ParsePublicKeyEdDSA or LoadPublicKeyEdDSA exactly 32 bytes; key material of
\* another length gives an error, not a key of the wrong size.
C6_LoadedKeyLength ==
    /\ (op \in {"ParsePrivateKeyEdDSA", "LoadPrivateKeyEdDSA"} /\ res.err = Nil) =>
           Len(res.val) = PrivateKeySize
    /\ (op \in {"ParsePublicKeyEdDSA", "LoadPublicKeyEdDSA"} /\ res.err = Nil) =>
           Len(res.val) = PublicKeySize

\* the well-formed private-key files and the seed each one carries
WellFormedPrivate ==
    {<<Envelope(p, s), s>> : p \in Prefixes, s \in Seeds}
    \cup {<<v, Seed(0)>> : v \in VariedInputs}

\* C7: for every well-formed private-key envelope whose key field is a 2-byte
\* prefix followed by a 32-byte seed s, ParsePrivateKeyEdDSA returns
\* NewKeyFromSeed(s) with a nil error, whatever the 2 prefix bytes are.
C7_ParsePrivateDerivesFromSeed ==
    \A w \in WellFormedPrivate :
        (op = "ParsePrivateKeyEdDSA" /\ input = w[1]) =>
            res = Result(Nil, NewKeyFromSeed(w[2]))

C7_Witness == /\ op = "ParsePrivateKeyEdDSA"
              /\ input = Envelope(<<255, 7>>, Seed(NumSeeds - 1))
              /\ res.err = Nil
              /\ Len(res.val) = PrivateKeySize

\* the log of a call that has not touched the public-key file
OnlyPrivateLoaded ==
    /\ Len(log) \in {1, 2}
    /\ log[1] = ReadEvent(args[1])
    /\ Len(log) = 2 => log[2] = ParseEvent("ParsePrivateKeyEdDSA")

\* C8: MustLoadEdDSA returns the pair if and only if both loads succeed; if
\* either fails it panics with that error.  The private key is loaded first,
\* and when that load fails the panic comes before the public-key file is read
\* or parsed.
C8_MustLoad ==
    op = "MustLoadEdDSA" =>
        /\ pc \in {"privateLoaded", "returned", "panicked"}
        /\ log # <<>> /\ log[1] = ReadEvent(args[1])
        /\ pc = "privateLoaded" =>
               /\ LoadPrivateKeyEdDSA(fs, args[1]).res = Result(Nil, loaded)
               /\ OnlyPrivateLoaded
        /\ pc = "returned" =>
               /\ LoadPrivateKeyEdDSA(fs, args[1]).res = Result(Nil, loaded)
               /\ LoadPublicKeyEdDSA(fs, args[2]).res = res
               /\ res.err = Nil
        /\ pc = "panicked" =>
               IF LoadPrivateKeyEdDSA(fs, args[1]).res.err # Nil
               THEN /\ res = LoadPrivateKeyEdDSA(fs, args[1]).res
                    /\ OnlyPrivateLoaded
               ELSE /\ res = LoadPublicKeyEdDSA(fs, args[2]).res
                    /\ res.err # Nil

C8_Witness == /\ op = "MustLoadEdDSA"
              /\ pc = "panicked"
              /\ res.err = ErrASN1
              /\ OnlyPrivateLoaded
              /\ LoadPublicKeyEdDSA(fs, args[2]).res.err = Nil

\* what a load of file name f through parser has to leave behind, k being the
\* result of the parser on the bytes of the file
LoadOutcome(f, parser, k) ==
    IF ReadFile(fs, f).err # Nil
    THEN /\ log = <<ReadEvent(f)>>
         /\ res = Result(ReadFile(fs, f).err, <<>>)
    ELSE /\ log = <<ReadEvent(f), ParseEvent(parser)>>
         /\ k.err \notin {Nil, Panic} => res = Result(k.err, <<>>)
         /\ k.err = Nil => res = k

\* C10: LoadPrivateKeyEdDSA and LoadPublicKeyEdDSA read the file once and
\* parse at most once: a failed read gives (nil, the read's error) without a
\* parse, a failed parse gives (nil, the parser's error), and only when both
\* succeed is the parsed key returned with a nil error.
C10_LoadReadsThenParses ==
    /\ op = "LoadPrivateKeyEdDSA" =>
           LoadOutcome(args[1], "ParsePrivateKeyEdDSA",
                       ParsePrivateKeyEdDSA(ReadFile(fs, args[1]).data))
    /\ op = "LoadPublicKeyEdDSA" =>
           LoadOutcome(args[1], "ParsePublicKeyEdDSA",
                       ParsePublicKeyEdDSA(ReadFile(fs, args[1]).data))

C10_Witness == /\ op = "LoadPublicKeyEdDSA"
               /\ ReadFile(fs, args[1]).err = ErrPermission
               /\ res = Result(ErrPermission, <<>>)
               /\ Len(log) = 1

===========================================================================
